---- MODULE Spec2Model ----
(***************************************************************************)
(* A model of the SAN literal parser of src/src/io/san.rs.                 *)
(*                                                                         *)
(* A literal is a sequence of one-character strings.  Every recognizer is  *)
(* an operator from the remaining input to a nom IResult:                  *)
(*   Ok(tail, val)      the parser matched, tail is what is left           *)
(*   Error(errors)      a recoverable error (nom::Err::Error)              *)
(*   Failure(errors)    an unrecoverable error (nom::Err::Failure)         *)
(* with errors the entries of a nom VerboseError, <<input, ErrorKind>>.    *)
(* The driver san_literal is stepped one move-shape alternative at a time, *)
(* so that the order of the attempts is part of the state.                 *)
(***************************************************************************)
EXTENDS Naturals, Sequences, FiniteSets

VARIABLES source, pc, attempts, data, tails, result, returned

vars == <<source, pc, attempts, data, tails, result, returned>>

----------------------------------------------------------------------------
(* Bounds of the model *)

MaxLen == 5

----------------------------------------------------------------------------
(* Option<T>: None is the empty sequence, Some(v) the one-element one *)

None == <<>>

Some(v) == <<v>>

(* nom::IResult *)

NoVal == [none |-> TRUE]

Ok(tail, val) == [kind |-> "Ok", tail |-> tail, val |-> val, errors |-> <<>>]

Error(input, code) ==
    [kind |-> "Error", tail |-> <<>>, val |-> NoVal,
     errors |-> << <<input, code>> >>]

append(input, code, r) ==
    [r EXCEPT !.errors = Append(r.errors, <<input, code>>)]

----------------------------------------------------------------------------
(* nom combinators, applied to the result of the parser they wrap *)

one_of(list, i) ==
    IF i # <<>> /\ Head(i) \in list
    THEN Ok(Tail(i), Head(i))
    ELSE Error(i, "OneOf")

tag(t, i) ==
    IF Len(i) >= Len(t) /\ SubSeq(i, 1, Len(t)) = t
    THEN Ok(SubSeq(i, Len(t) + 1, Len(i)), t)
    ELSE Error(i, "Tag")

opt(r, i) ==
    IF r.kind = "Ok" THEN Ok(r.tail, Some(r.val))
    ELSE IF r.kind = "Error" THEN Ok(i, None)
    ELSE r

cut(r) ==
    IF r.kind = "Error" THEN [r EXCEPT !.kind = "Failure"] ELSE r

(* all_consuming dropped: whatever is left is handed back *)
any_remainder(r) == r

all_consuming(r) ==
    IF r.kind # "Ok" THEN r
    ELSE IF r.tail = <<>> THEN r
    ELSE Error(r.tail, "Eof")

----------------------------------------------------------------------------
(* Field recognizers *)

(* an annotation that takes every leading '!' and '?' *)
RECURSIVE annotation_unbounded(_)
annotation_unbounded(i) ==
    IF i # <<>> /\ Head(i) \in {"!", "?"}
    THEN LET r == annotation_unbounded(Tail(i))
         IN Ok(r.tail, Some(IF Head(i) = "!" THEN "Bang" ELSE "Hook"))
    ELSE Ok(i, None)

annotation(i) ==
    LET a == opt(one_of({"!", "?"}, i), i)
        b == opt(one_of({"!", "?"}, a.tail), a.tail)
        p == <<a.val, b.val>>
    IN Ok(b.tail,
          CASE p = <<None, None>> -> None
            [] p = <<Some("?"), None>> -> Some("Hook")
            [] p = <<Some("!"), None>> -> Some("Bang")
            [] p = <<Some("?"), Some("?")>> -> Some("HookHook")
            [] p = <<Some("?"), Some("!")>> -> Some("HookBang")
            [] p = <<Some("!"), Some("!")>> -> Some("BangBang")
            [] p = <<Some("!"), Some("?")>> -> Some("BangHook"))

check(i) ==
    LET t == tag(<<"+">>, i)
    IN IF t.kind = "Ok" THEN Ok(t.tail, t.val = <<"+">>) ELSE t

checkmate(i) ==
    LET t == tag(<<"#">>, i)
    IN IF t.kind = "Ok" THEN Ok(t.tail, t.val = <<"#">>) ELSE t

StandardPieceKind(c) ==
    CASE c = "K" -> "King"
      [] c = "Q" -> "Queen"
      [] c = "B" -> "Bishop"
      [] c = "N" -> "Knight"
      [] c = "R" -> "Rook"

piece(i) ==
    LET p == one_of({"K", "Q", "B", "N", "R"}, i)
    IN IF p.kind = "Ok" THEN Ok(p.tail, StandardPieceKind(p.val)) ELSE p

Files == {"a", "b", "c", "d", "e", "f", "g", "h"}

Ranks == {"1", "2", "3", "4", "5", "6", "7", "8"}

file(i) == one_of(Files, i)

target(i) ==
    LET f == one_of(Files, i)
    IN IF f.kind # "Ok" THEN f
       ELSE LET r == one_of(Ranks, f.tail)
            IN IF r.kind # "Ok" THEN r
               ELSE Ok(r.tail, <<f.val, r.val>>)

disambiguation_field(i) ==
    LET f == opt(one_of(Files, i), i)
        r == opt(one_of(Ranks, f.tail), f.tail)
    IN Ok(r.tail,
          CASE f.val = None /\ r.val = None -> None
            [] f.val # None /\ r.val = None ->
                 Some([variant |-> "FileLetter", at |-> <<f.val[1]>>])
            [] f.val = None /\ r.val # None ->
                 Some([variant |-> "RankDigit", at |-> <<r.val[1]>>])
            [] f.val # None /\ r.val # None ->
                 Some([variant |-> "SourceSquare",
                       at |-> <<f.val[1], r.val[1]>>]))

capture(i) == one_of({"x", "X", "×", ":"}, i)

(* promotion without the commit after '=': preceded(tag("="), piece) *)
promotion_without_cut(i) ==
    LET e == tag(<<"=">>, i)
    IN IF e.kind # "Ok" THEN e
       ELSE LET p == one_of({"R", "N", "B", "Q"}, e.tail)
            IN IF p.kind # "Ok" THEN p
               ELSE Ok(p.tail, StandardPieceKind(p.val))

promotion(i) ==
    LET e == tag(<<"=">>, i)
    IN IF e.kind # "Ok" THEN e
       ELSE LET p == cut(one_of({"R", "N", "B", "Q"}, e.tail))
            IN IF p.kind # "Ok" THEN p
               ELSE Ok(p.tail, StandardPieceKind(p.val))

----------------------------------------------------------------------------
(* Move-shape recognizers *)

(* an abbreviated pawn move that takes no capture glyph: file, file *)
abbreviated_pawn_move_no_capture(i) ==
    LET s == one_of(Files, i)
    IN IF s.kind # "Ok" THEN s
       ELSE LET t == one_of(Files, s.tail)
            IN IF t.kind # "Ok" THEN t
               ELSE LET p == opt(promotion(t.tail), t.tail)
                    IN IF p.kind # "Ok" THEN p
                       ELSE Ok(p.tail,
                               [shape |-> "AbbreviatedPawnMove",
                                source_rank |-> s.val,
                                target_rank |-> t.val,
                                is_capture |-> FALSE,
                                promotion_piece |-> p.val])

abbreviated_pawn_move(i) ==
    LET s == one_of(Files, i)
    IN IF s.kind # "Ok" THEN s
       ELSE LET c == opt(capture(s.tail), s.tail)
                t == one_of(Files, c.tail)
            IN IF t.kind # "Ok" THEN t
               ELSE LET p == opt(promotion(t.tail), t.tail)
                    IN IF p.kind # "Ok" THEN p
                       ELSE Ok(p.tail,
                               [shape |-> "AbbreviatedPawnMove",
                                source_rank |-> s.val,
                                target_rank |-> t.val,
                                is_capture |-> c.val # None,
                                promotion_piece |-> p.val])

file_capture(i) ==
    LET f == file(i)
    IN IF f.kind # "Ok" THEN f
       ELSE LET c == capture(f.tail)
            IN IF c.kind # "Ok" THEN c
               ELSE Ok(c.tail, <<f.val, c.val>>)

pawn_move(i) ==
    LET b == opt(file_capture(i), i)
        t == target(b.tail)
    IN IF t.kind # "Ok" THEN t
       ELSE LET p == opt(promotion(t.tail), t.tail)
            IN IF p.kind # "Ok" THEN p
               ELSE Ok(p.tail,
                       [shape |-> "PawnMove",
                        target |-> t.val,
                        is_capture |-> b.val # None,
                        capture_rank |->
                            IF b.val = None THEN None ELSE Some(b.val[1][1]),
                        promotion_piece |-> p.val])

castle_tags ==
    << <<"0", "-", "0">>, <<"O", "-", "O">>,
       <<"0", "-", "0", "-", "0">>, <<"O", "-", "O", "-", "O">> >>

RECURSIVE alt_tags(_, _, _)
alt_tags(tags, k, i) ==
    LET t == tag(tags[k], i)
    IN IF t.kind = "Ok" THEN t
       ELSE IF k < Len(tags) THEN alt_tags(tags, k + 1, i)
       ELSE append(i, "Alt", t)

castle_move(i) ==
    LET c == alt_tags(castle_tags, 1, i)
    IN IF c.kind # "Ok" THEN c
       ELSE Ok(c.tail,
               [shape |-> "CastleMove",
                side |-> IF c.val \in {<<"O", "-", "O">>, <<"0", "-", "0">>}
                         THEN "KingSide" ELSE "QueenSide"])

normal_move(i) ==
    LET p == piece(i)
    IN IF p.kind # "Ok" THEN p
       ELSE LET d == disambiguation_field(p.tail)
                c == opt(capture(d.tail), d.tail)
                t == target(c.tail)
            IN IF t.kind # "Ok" THEN t
               ELSE Ok(t.tail,
                       [shape |-> "NormalMove",
                        piece |-> p.val,
                        disambiguation_field |-> d.val,
                        target |-> t.val,
                        is_capture |-> c.val # None])

----------------------------------------------------------------------------
(* The driver san_literal *)

(* the full pawn move tried before the abbreviated one *)
alternatives_pawn_first ==
    <<"castle_move", "pawn_move", "abbreviated_pawn_move", "normal_move">>

alternatives ==
    <<"castle_move", "abbreviated_pawn_move", "pawn_move", "normal_move">>

permutation_check_checkmate(i) ==
    LET c1 == check(i)
        m1 == checkmate(i)
    IN IF c1.kind = "Ok"
       THEN LET m2 == checkmate(c1.tail)
            IN IF m2.kind = "Ok" THEN Ok(m2.tail, <<c1.val, m2.val>>)
               ELSE append(c1.tail, "Permutation", m2)
       ELSE IF m1.kind = "Ok"
       THEN LET c2 == check(m1.tail)
            IN IF c2.kind = "Ok" THEN Ok(c2.tail, <<c2.val, m1.val>>)
               ELSE append(m1.tail, "Permutation", c2)
       ELSE append(i, "Permutation", m1)

(* the two glyphs each optional on its own, in either order *)
check_state_independent(i) ==
    LET c1 == opt(check(i), i)
        m == opt(checkmate(c1.tail), c1.tail)
        c2 == IF c1.val = None THEN opt(check(m.tail), m.tail) ELSE Ok(m.tail, c1.val)
    IN Ok(c2.tail, Some(<<c2.val # None, m.val # None>>))

check_state(i) == opt(permutation_check_checkmate(i), i)

San(d, cs, an) ==
    [data |-> d,
     is_check |-> cs # None /\ cs[1][1],
     is_checkmate |-> cs # None /\ cs[1][2],
     annotation |-> an]

(* The rest of san_literal once the alternation returned d: the optional     *)
(* check/checkmate pair, the annotation, all_consuming, and the San built.   *)
suffixes(d) ==
    LET cs == check_state(d.tail)
        an == annotation(cs.tail)
        e == all_consuming(an)
    IN IF e.kind # "Ok" THEN e
       ELSE Ok(e.tail, San(d.val, cs.val, an.val))

suffix_tails(d) ==
    LET cs == check_state(d.tail)
        an == annotation(cs.tail)
    IN <<d.tail, cs.tail, an.tail>>

(* TryFrom<&str> for San: san_literal(value).finish().map(|(_, san)| san) *)
finish(r) ==
    IF r.kind = "Ok" THEN [kind |-> "Ok", san |-> r.val]
    ELSE [kind |-> "Err",
          error |-> [type |-> "VerboseError", errors |-> r.errors]]

ParseError ==
    {"InvalidLeadingPiece", "InvalidTargetSquare", "InvalidCaptureField",
     "InvalidDisambiguationField", "InvalidAnnotationSuffixField",
     "InvalidEnPassantSuffix", "InvalidCheckField", "InvalidCheckmateField",
     "InvalidPromotionField", "InvalidCastlingField", "InvalidLiteralLength",
     "TrailingGarbage", "Unknown"}

----------------------------------------------------------------------------
(* The literals handed to the parser *)

(* Literals are drawn over small groups of glyphs, one group per part of the *)
(* grammar: castling, pawn moves with captures and promotions, the check and *)
(* annotation suffixes, piece moves, promotions with suffixes.               *)
Alphabets ==
    { {"0", "O", "-", "+", "#", "!"},
      {"e", "f", "4", "x", "=", "Q"},
      {"e", "4", "+", "#", "!", "?"},
      {"N", "d", "3", "x", ":", "?"},
      {"e", "8", "=", "K", "Q", "#"} }

Strings(A, n) == UNION {[1..k -> A] : k \in 0..n}

Literals == UNION {Strings(A, MaxLen) : A \in Alphabets}

Pending == [kind |-> "Pending"]

Init ==
    /\ source \in Literals
    /\ pc = alternatives[1]
    /\ attempts = <<>>
    /\ data = Pending
    /\ tails = <<>>
    /\ result = Pending
    /\ returned = Pending

Index(name) == CHOOSE k \in 1..Len(alternatives) : alternatives[k] = name

(* One alternative of alt((castle_move, abbreviated_pawn_move, pawn_move,    *)
(* normal_move)) returned r: Ok ends the alternation, Error tries the next   *)
(* alternative (after the last one alt appends ErrorKind::Alt and the parse  *)
(* ends), Failure ends the whole parse.                                      *)
alt(name, r) ==
    LET k == Index(name)
    IN IF r.kind = "Ok"
       THEN [pc |-> "suffixes", data |-> r, result |-> Pending]
       ELSE IF r.kind = "Error" /\ k < Len(alternatives)
       THEN [pc |-> alternatives[k + 1], data |-> Pending, result |-> Pending]
       ELSE IF r.kind = "Error"
       THEN [pc |-> "done", data |-> Pending,
             result |-> append(source, "Alt", r)]
       ELSE [pc |-> "done", data |-> Pending, result |-> r]

TryCastle ==
    /\ pc = "castle_move"
    /\ LET r == castle_move(source)
           o == alt("castle_move", r)
       IN /\ attempts' = Append(attempts, [parser |-> "castle_move", kind |-> r.kind])
          /\ pc' = o.pc
          /\ data' = o.data
          /\ result' = o.result
          /\ returned' = IF o.pc = "done" THEN finish(o.result) ELSE Pending
    /\ UNCHANGED <<source, tails>>

TryAbbreviatedPawn ==
    /\ pc = "abbreviated_pawn_move"
    /\ LET r == abbreviated_pawn_move(source)
           o == alt("abbreviated_pawn_move", r)
       IN /\ attempts' = Append(attempts, [parser |-> "abbreviated_pawn_move", kind |-> r.kind])
          /\ pc' = o.pc
          /\ data' = o.data
          /\ result' = o.result
          /\ returned' = IF o.pc = "done" THEN finish(o.result) ELSE Pending
    /\ UNCHANGED <<source, tails>>

TryPawn ==
    /\ pc = "pawn_move"
    /\ LET r == pawn_move(source)
           o == alt("pawn_move", r)
       IN /\ attempts' = Append(attempts, [parser |-> "pawn_move", kind |-> r.kind])
          /\ pc' = o.pc
          /\ data' = o.data
          /\ result' = o.result
          /\ returned' = IF o.pc = "done" THEN finish(o.result) ELSE Pending
    /\ UNCHANGED <<source, tails>>

TryNormal ==
    /\ pc = "normal_move"
    /\ LET r == normal_move(source)
           o == alt("normal_move", r)
       IN /\ attempts' = Append(attempts, [parser |-> "normal_move", kind |-> r.kind])
          /\ pc' = o.pc
          /\ data' = o.data
          /\ result' = o.result
          /\ returned' = IF o.pc = "done" THEN finish(o.result) ELSE Pending
    /\ UNCHANGED <<source, tails>>

Suffixes ==
    /\ pc = "suffixes"
    /\ pc' = "done"
    /\ tails' = suffix_tails(data)
    /\ result' = suffixes(data)
    /\ returned' = finish(suffixes(data))
    /\ UNCHANGED <<source, attempts, data>>

Next == TryCastle \/ TryAbbreviatedPawn \/ TryPawn \/ TryNormal \/ Suffixes

Spec == Init /\ [][Next]_vars

----------------------------------------------------------------------------
(* What the claims read off a state *)

Done == pc = "done"

Accepted == Done /\ returned.kind = "Ok"

Rejected == Done /\ returned.kind = "Err"

ShapeMatched == data.kind = "Ok"

Pieces == {"K", "Q", "B", "N", "R"}

PromotionPieces == {"R", "N", "B", "Q"}

CaptureGlyphs == {"x", "X", "×", ":"}

IsSquare(s) == Len(s) = 2 /\ s[1] \in Files /\ s[2] \in Ranks

----------------------------------------------------------------------------
(* C1: the queenside castling literals "0-0-0" and "O-O-O" are accepted and *)
(* decode to CastleMove::QueenSide; the kingside form matching a prefix     *)
(* does not prevent it.                                                      *)
C1_QueensideCastleAccepted ==
    (Done /\ source \in {<<"0", "-", "0", "-", "0">>,
                         <<"O", "-", "O", "-", "O">>})
        => /\ returned.kind = "Ok"
           /\ returned.san.data.shape = "CastleMove"
           /\ returned.san.data.side = "QueenSide"

(* C2: after any matched move shape each of the tails "", "+", "#", "+#",   *)
(* "#+" is accepted, is_check is true exactly when '+' is present and       *)
(* is_checkmate exactly when '#' is present.                                 *)
C2_CheckTailsAccepted ==
    (Done /\ ShapeMatched
          /\ data.tail \in {<<>>, <<"+">>, <<"#">>, <<"+", "#">>, <<"#", "+">>})
        => /\ returned.kind = "Ok"
           /\ returned.san.is_check = (\E k \in DOMAIN data.tail : data.tail[k] = "+")
           /\ returned.san.is_checkmate = (\E k \in DOMAIN data.tail : data.tail[k] = "#")

IsDisambiguation(s) ==
    \/ s = <<>>
    \/ Len(s) = 1 /\ s[1] \in Files \cup Ranks
    \/ IsSquare(s)

IsOptCapture(s) == s = <<>> \/ (Len(s) = 1 /\ s[1] \in CaptureGlyphs)

(* piece letter, optional disambiguation, optional capture glyph, target *)
IsNormalLiteral(s) ==
    /\ Len(s) >= 3
    /\ s[1] \in Pieces
    /\ IsSquare(SubSeq(s, Len(s) - 1, Len(s)))
    /\ \E k \in 1..(Len(s) - 2) :
          /\ IsDisambiguation(SubSeq(s, 2, k))
          /\ IsOptCapture(SubSeq(s, k + 1, Len(s) - 2))

(* C3: every literal made of a piece letter, an optional disambiguation     *)
(* field, an optional capture glyph and a target square is accepted as a    *)
(* NormalMove; a piece letter followed directly by a target square gives    *)
(* disambiguation_field = None, is_capture = false and that target.         *)
C3_NormalLiteralAccepted ==
    (Done /\ IsNormalLiteral(source))
        => /\ returned.kind = "Ok"
           /\ returned.san.data.shape = "NormalMove"
           /\ Len(source) = 3 =>
                /\ returned.san.data.disambiguation_field = None
                /\ returned.san.data.is_capture = FALSE
                /\ returned.san.data.target = <<source[2], source[3]>>

IsOptPromotion(s) ==
    s = <<>> \/ (Len(s) = 2 /\ s[1] = "=" /\ s[2] \in PromotionPieces)

(* file letter, capture glyph, target square, optional promotion *)
IsPawnCaptureLiteral(s) ==
    /\ Len(s) >= 4
    /\ s[1] \in Files
    /\ s[2] \in CaptureGlyphs
    /\ IsSquare(SubSeq(s, 3, 4))
    /\ IsOptPromotion(SubSeq(s, 5, Len(s)))

(* C4: every pawn-capture literal (file, capture glyph, target square,      *)
(* optional promotion) is accepted and decodes to PawnMove with             *)
(* is_capture = true, capture_rank = Some(source file), target the square   *)
(* and promotion_piece as written.                                           *)
C4_PawnCaptureAccepted ==
    (Done /\ IsPawnCaptureLiteral(source))
        => /\ returned.kind = "Ok"
           /\ returned.san.data.shape = "PawnMove"
           /\ returned.san.data.is_capture = TRUE
           /\ returned.san.data.capture_rank = Some(source[1])
           /\ returned.san.data.target = <<source[3], source[4]>>
           /\ returned.san.data.promotion_piece =
                IF Len(source) = 4 THEN None
                ELSE Some(StandardPieceKind(source[6]))

----------------------------------------------------------------------------

BadPromotionAt(s, k) ==
    /\ k \in DOMAIN s
    /\ s[k] = "="
    /\ (k = Len(s) \/ s[k + 1] \notin PromotionPieces)

(* file, optional capture glyph, file *)
IsAbbreviatedShape(s) ==
    \/ Len(s) = 2 /\ s[1] \in Files /\ s[2] \in Files
    \/ Len(s) = 3 /\ s[1] \in Files /\ s[2] \in CaptureGlyphs /\ s[3] \in Files

Prefix(s, n) == IF n <= Len(s) THEN SubSeq(s, 1, n) ELSE s

LastAttempt == attempts[Len(attempts)]

(* C5: promotion is a commit point.  Every literal holding an '=' that is   *)
(* not followed by one of R N B Q is rejected; a recognizer that matched    *)
(* '=' and then found no promotion piece ends the call with a Failure, and  *)
(* no later move-shape alternative is tried.                                 *)
C5_PromotionCommit ==
    /\ (Done /\ \E k \in DOMAIN source : BadPromotionAt(source, k)) => Rejected
    /\ \A j \in DOMAIN attempts :
          attempts[j].kind = "Failure" =>
              /\ j = Len(attempts)
              /\ Done
              /\ data.kind = "Pending"
              /\ result.kind = "Failure"
              /\ Rejected
    /\ \A n \in 2..3 :
          (Done /\ IsAbbreviatedShape(Prefix(source, n))
                /\ BadPromotionAt(source, n + 1))
              => /\ Len(attempts) = 2
                 /\ LastAttempt = [parser |-> "abbreviated_pawn_move", kind |-> "Failure"]
    /\ (Done /\ IsSquare(Prefix(source, 2)) /\ BadPromotionAt(source, 3))
          => /\ Len(attempts) = 3
             /\ LastAttempt = [parser |-> "pawn_move", kind |-> "Failure"]

C5_Witness ==
    /\ Rejected
    /\ Len(attempts) = 2
    /\ LastAttempt.kind = "Failure"
    /\ BadPromotionAt(source, Len(source))

IsSuffix(t, s) ==
    Len(t) <= Len(s) /\ t = SubSeq(s, Len(s) - Len(t) + 1, Len(s))

(* C6: full consumption.  Whenever a San is returned, the move shape, the   *)
(* check/checkmate glyphs and the annotation consumed the whole literal:    *)
(* nothing is left after the annotation.                                     *)
C6_FullConsumption ==
    Accepted =>
        /\ ShapeMatched
        /\ result.tail = <<>>
        /\ IsSuffix(tails[1], source)
        /\ IsSuffix(tails[2], tails[1])
        /\ IsSuffix(tails[3], tails[2])
        /\ tails[3] = <<>>

C6_Witness ==
    /\ Accepted
    /\ Len(tails[1]) > Len(tails[2])
    /\ Len(tails[2]) > Len(tails[3])

(* C7: every failed parse through TryFrom is reported as one of the         *)
(* ParseError kinds; when a move shape and its suffixes match but input is  *)
(* left over, the error is TrailingGarbage carrying the remainder.          *)
C7_ErrorsAreParseErrors ==
    Rejected =>
        /\ returned.error.type = "ParseError"
        /\ returned.error.variant \in ParseError
        /\ (ShapeMatched /\ tails[3] # <<>>) =>
              /\ returned.error.variant = "TrailingGarbage"
              /\ returned.error.payload = tails[3]

AnnotationGlyphs == {"!", "?"}

ThreeAnnotationGlyphs(s) ==
    Len(s) >= 3 /\ \A k \in 1..3 : s[k] \in AnnotationGlyphs

(* C8: the annotation recognizer consumes at most two '!'/'?' characters,   *)
(* so a literal whose move shape and check glyphs are followed by three or  *)
(* more of them is rejected, and an accepted annotation is one of the six   *)
(* one- or two-glyph values.                                                 *)
C8_AnnotationBounded ==
    /\ (Done /\ ShapeMatched) => Len(tails[2]) - Len(tails[3]) <= 2
    /\ (Done /\ ShapeMatched /\ ThreeAnnotationGlyphs(tails[2])) => Rejected
    /\ Accepted =>
          returned.san.annotation \in
              {None, Some("Bang"), Some("Hook"), Some("BangBang"),
               Some("BangHook"), Some("HookBang"), Some("HookHook")}

C8_Witness ==
    /\ Rejected
    /\ ShapeMatched
    /\ ThreeAnnotationGlyphs(tails[2])
    /\ Len(tails[2]) - Len(tails[3]) = 2

FixedOrder ==
    <<"castle_move", "abbreviated_pawn_move", "pawn_move", "normal_move">>

Matches(k, s) ==
    CASE k = 1 -> castle_move(s).kind = "Ok"
      [] k = 2 -> abbreviated_pawn_move(s).kind = "Ok"
      [] k = 3 -> pawn_move(s).kind = "Ok"
      [] k = 4 -> normal_move(s).kind = "Ok"

(* C9: first success wins with no retry.  The alternatives are tried in the *)
(* order castle, abbreviated pawn move, pawn move, normal move; the payload *)
(* comes from the first one that matches a prefix of the literal; once one  *)
(* matched, nothing later is tried, whether or not the suffixes and the     *)
(* end of input succeed after it.                                            *)
C9_FirstSuccessWins ==
    LET n == Len(attempts)
    IN /\ n <= 4
       /\ \A j \in 1..n : attempts[j].parser = FixedOrder[j]
       /\ \A j \in 1..n : j < n => attempts[j].kind = "Error"
       /\ ShapeMatched =>
             /\ n >= 1
             /\ attempts[n].kind = "Ok"
             /\ Matches(n, source)
             /\ \A j \in 1..(n - 1) : ~Matches(j, source)
             /\ data.val.shape =
                   <<"CastleMove", "AbbreviatedPawnMove", "PawnMove", "NormalMove">>[n]
       /\ Accepted => (ShapeMatched /\ returned.san.data = data.val)
       /\ Done => ~ENABLED Next

C9_Witness ==
    /\ Rejected
    /\ ShapeMatched
    /\ Len(attempts) = 2
    /\ pawn_move(source).kind = "Ok"
    /\ pawn_move(source).tail = <<>>

BothGlyphs(s) ==
    Len(s) >= 2 /\ SubSeq(s, 1, 2) \in {<<"+", "#">>, <<"#", "+">>}

(* C10: in every San returned, is_check and is_checkmate have the same      *)
(* value: both are true exactly when the move shape is followed by both     *)
(* glyphs, "+#" or "#+", and both are false otherwise.                       *)
C10_CheckFlagsEqual ==
    Accepted =>
        /\ returned.san.is_check = returned.san.is_checkmate
        /\ returned.san.is_check = BothGlyphs(data.tail)

C10_Witness ==
    /\ Accepted
    /\ returned.san.is_check
    /\ returned.san.is_checkmate
    /\ data.tail[1] = "#"

----------------------------------------------------------------------------

(* pawn_move taken alone matches the literal with its (file, capture) block *)
PawnCaptureMatches(s) ==
    pawn_move(s).kind = "Ok" /\ pawn_move(s).val.is_capture

(* C11: in every San returned whose payload is PawnMove, is_capture is      *)
(* false and capture_rank is None: a literal on which pawn_move would match *)
(* with its (file, capture glyph) block is matched, or ended at '=', by     *)
(* abbreviated_pawn_move first, so pawn_move never runs on it.              *)
C11_PawnMoveNeverCaptures ==
    /\ (ShapeMatched /\ data.val.shape = "PawnMove") =>
          /\ data.val.is_capture = FALSE
          /\ data.val.capture_rank = None
    /\ (Accepted /\ returned.san.data.shape = "PawnMove") =>
          /\ returned.san.data.is_capture = FALSE
          /\ returned.san.data.capture_rank = None
    /\ PawnCaptureMatches(source) =>
          /\ pc # "pawn_move"
          /\ Len(attempts) <= 2
          /\ Len(attempts) = 2 => LastAttempt.kind \in {"Ok", "Failure"}

C11_Witness ==
    /\ Accepted
    /\ returned.san.data.shape = "PawnMove"
    /\ returned.san.data.promotion_piece # None

(* the capturing literal itself: abbreviated_pawn_move took its prefix *)
C11_CaptureLiteralReached ==
    /\ Done
    /\ PawnCaptureMatches(source)
    /\ LastAttempt.parser = "abbreviated_pawn_move"

====
